---- MODULE Spec2Model ----
(***************************************************************************)
(* flux-web: route table (router.rs), method coercion (method.rs),        *)
(* request/response model (request.rs, response.rs), handler capability   *)
(* (handler.rs) and the accept loop / per-connection dispatch (app.rs).   *)
(*                                                                         *)
(* Text (paths, header names, header values) is a tuple of one-character  *)
(* strings, so that prefixes, letter case and single bytes can be told    *)
(* apart.  Option<T> is the empty tuple (None) or a one-element tuple.     *)
(***************************************************************************)
EXTENDS Integers, Sequences, FiniteSets, TLC

VARIABLES
    phase,            \* App / listen(): "Registering", "Serving", "BindFailed", "AcceptFailed"
    routes,           \* Router.routes : Vec<Route>
    routes_at_listen, \* history: the Vec moved into the Arc by listen()
    probe,            \* the last direct find_route call and what it returned
    pc,               \* per connection task: where it is
    wire,             \* per connection: the request hyper parsed (hyper_req)
    parts,            \* per connection: method, path, headers of handle_request
    app_req,          \* per connection: the AppRequest handed to the handler
    response,         \* per connection: the AppResponse of dispatch
    out,              \* per connection: the hyper Response built from it
    logged,           \* per connection: line 84 printed serve_connection's error
    seq,              \* history, per connection: requests read, responses written
    built,            \* an AppResponse under construction and the with_header calls made on it
    invoked           \* history, per connection: the handler calls made for its latest request

vars == <<phase, routes, routes_at_listen, probe, pc, wire, parts, app_req, response, out, logged, seq, built, invoked>>

conn_vars == <<pc, wire, parts, app_req, response, out, logged>>

serve_vars == <<phase, routes, routes_at_listen, probe, conn_vars>>

hist == <<seq, built, invoked>>

----------------------------------------------------------------------------
\* Bounds of the model.

MaxRoutes == 2

MaxConns == 2

Conns == 1..MaxConns

----------------------------------------------------------------------------
\* Option<T>

None == <<>>

Some(x) == <<x>>

----------------------------------------------------------------------------
\* Characters and text.

UpperAlpha == <<"A","B","C","D","E","F","G","H","I","J","K","L","M",
                "N","O","P","Q","R","S","T","U","V","W","X","Y","Z">>

LowerAlpha == <<"a","b","c","d","e","f","g","h","i","j","k","l","m",
                "n","o","p","q","r","s","t","u","v","w","x","y","z">>

Digits == {"0","1","2","3","4","5","6","7","8","9"}

Range(s) == {s[i] : i \in DOMAIN s}

\* bytes that are neither visible ASCII nor space: a line feed and a byte >= 0x80
CtlChars == {"LF", "CR"}

HighChars == {"0xFF"}

ToLowerChar(c) ==
    IF \E i \in DOMAIN UpperAlpha : UpperAlpha[i] = c
    THEN LowerAlpha[CHOOSE i \in DOMAIN UpperAlpha : UpperAlpha[i] = c]
    ELSE c

ToLowerVerbatim(s) == s

ToLower(s) == [i \in DOMAIN s |-> ToLowerChar(s[i])]

\* the literals of the source
Str_ContentType == <<"C","o","n","t","e","n","t","-","T","y","p","e">>

Str_content_type == ToLower(Str_ContentType)

Str_text_plain == <<"t","e","x","t","/","p","l","a","i","n">>

Str_NotFound == <<"N","o","t"," ","F","o","u","n","d">>

----------------------------------------------------------------------------
\* method.rs

Method == {"Get", "Post", "Put", "Delete", "Patch"}

convert_method_other(m) ==
    CASE m = "GET" -> "Get"
      [] m = "POST" -> "Post"
      [] m = "PUT" -> "Put"
      [] m = "DELETE" -> "Delete"
      [] m = "PATCH" -> "Patch"
      [] OTHER -> "Post"

convert_method(m) ==
    CASE m = "GET" -> "Get"
      [] m = "POST" -> "Post"
      [] m = "PUT" -> "Put"
      [] m = "DELETE" -> "Delete"
      [] m = "PATCH" -> "Patch"
      [] OTHER -> "Get"

----------------------------------------------------------------------------
\* std::collections::HashMap<String, String> as a function with a finite domain

EmptyMap == [k \in {} |-> <<>>]

MapInsert(m, k, v) == [x \in (DOMAIN m) \cup {k} |-> IF x = k THEN v ELSE m[x]]

MapGet(m, k) == IF k \in DOMAIN m THEN Some(m[k]) ELSE None

----------------------------------------------------------------------------
\* response.rs

AppResponse_new(status, body) ==
    [status |-> status, headers |-> EmptyMap, body |-> Some(body)]

AppResponse_status(code) ==
    [status |-> code, headers |-> EmptyMap, body |-> None]

AppResponse_no_content ==
    [status |-> 204, headers |-> EmptyMap, body |-> None]

AppResponse_with_bytes(status, bytes) ==
    [status |-> status, headers |-> EmptyMap, body |-> Some(bytes)]

with_header_any_case(r, key, value) ==
    LET kept == {k \in DOMAIN r.headers : ToLower(k) # ToLower(key)}
    IN  [r EXCEPT !.headers =
            [x \in kept \cup {key} |-> IF x = key THEN value ELSE r.headers[x]]]

with_header_keep_first(r, key, value) ==
    IF key \in DOMAIN r.headers THEN r
    ELSE [r EXCEPT !.headers = MapInsert(r.headers, key, value)]

with_header(r, key, value) ==
    [r EXCEPT !.headers = MapInsert(r.headers, key, value)]

----------------------------------------------------------------------------
\* router.rs

Route(method, path, handler) == [method |-> method, path |-> path, handler |-> handler]

add_route_replace(rs, method, path, handler) ==
    IF \E i \in DOMAIN rs : rs[i].method = method /\ rs[i].path = path
    THEN [i \in DOMAIN rs |->
            IF rs[i].method = method /\ rs[i].path = path
            THEN Route(method, path, handler) ELSE rs[i]]
    ELSE Append(rs, Route(method, path, handler))

add_route(rs, method, path, handler) == Append(rs, Route(method, path, handler))

RouteMatchesPathOnly(route, method, path) == route.path = path

TrimSlash(path) ==
    IF Len(path) > 1 /\ path[Len(path)] = "/" THEN SubSeq(path, 1, Len(path) - 1) ELSE path

RouteMatchesNormalized(route, method, path) ==
    route.method = method /\ ToLower(TrimSlash(route.path)) = ToLower(TrimSlash(path))

RouteMatches(route, method, path) == route.method = method /\ route.path = path

RECURSIVE FindFrom(_, _, _, _)
\* Iterator::find: the first element from position i on that satisfies the closure
FindFrom(rs, i, method, path) ==
    IF i > Len(rs) THEN None
    ELSE IF RouteMatches(rs[i], method, path) THEN Some(rs[i])
    ELSE FindFrom(rs, i + 1, method, path)

RECURSIVE FindLastFrom(_, _, _, _)
FindLastFrom(rs, i, method, path) ==
    IF i < 1 THEN None
    ELSE IF RouteMatches(rs[i], method, path) THEN Some(rs[i].handler)
    ELSE FindLastFrom(rs, i - 1, method, path)

find_route_last(rs, method, path) == FindLastFrom(rs, Len(rs), method, path)

find_route(rs, method, path) ==
    LET found == FindFrom(rs, 1, method, path)
    IN  IF found = None THEN None ELSE Some(found[1].handler)

----------------------------------------------------------------------------
\* handler.rs: a handler is any closure Fn(&AppRequest) -> AppResponse.  The
\* closures modelled are the shapes the tests and bin/main.rs register.

Handler(id, kind, code, key, val) ==
    [id |-> id, kind |-> kind, code |-> code, key |-> key, val |-> val]

EchoHandler(id) == Handler(id, "echo", 200, <<>>, <<>>)

StatusHandler(code) == Handler("st", "status", code, <<>>, <<>>)

HeaderHandler(key, val) == Handler("hd", "header", 200, key, val)

NoContentHandler == Handler("nc", "no_content", 204, <<>>, <<>>)

\* a closure chaining two with_header calls
TwoHeaderHandler(k1, v1, k2, v2) == Handler("th", "header2", 200, <<k1, k2>>, <<v1, v2>>)

\* what an echo closure reads of the request it was given
EchoBody(h, req) ==
    <<h.id, req.method>> \o req.path \o <<"|">> \o req.body \o <<"|">>
        \o (LET v == MapGet(req.headers, <<"x","-","i","d">>)
            IN  IF v = None THEN <<"-">> ELSE v[1])

handle(h, req) ==
    CASE h.kind = "echo" ->
            with_header(AppResponse_new(200, EchoBody(h, req)), Str_ContentType, Str_text_plain)
      [] h.kind = "status" -> AppResponse_status(h.code)
      [] h.kind = "header" -> with_header(AppResponse_new(200, <<"o","k">>), h.key, h.val)
      [] h.kind = "no_content" -> AppResponse_no_content
      [] h.kind = "header2" ->
            with_header(with_header(AppResponse_new(200, <<"o","k">>), h.key[1], h.val[1]),
                        h.key[2], h.val[2])

----------------------------------------------------------------------------
\* hyper / http, as app.rs uses them

\* http::Uri::path(): the request target up to, not including, the first '?'
UriPathVerbatim(target) == target

UriPath(target) ==
    LET q == {i \in DOMAIN target : target[i] = "?"}
    IN  IF q = {} THEN target
        ELSE SubSeq(target, 1, (CHOOSE i \in q : \A j \in q : i <= j) - 1)

\* HeaderValue::to_str(): Ok only for visible ASCII, space and tab
ToStrOk(value) == \A i \in DOMAIN value : value[i] \notin (CtlChars \cup HighChars)

RECURSIVE CollectHeadersSkipBad(_, _, _)
CollectHeadersSkipBad(hs, i, acc) ==
    IF i > Len(hs) THEN acc
    ELSE CollectHeadersSkipBad(hs, i + 1,
            IF ToStrOk(hs[i].value)
            THEN MapInsert(acc, ToLower(hs[i].name), hs[i].value)
            ELSE acc)

RECURSIVE CollectHeadersFirstWins(_, _, _)
CollectHeadersFirstWins(hs, i, acc) ==
    IF i > Len(hs) THEN acc
    ELSE CollectHeadersFirstWins(hs, i + 1,
            IF ToLower(hs[i].name) \in DOMAIN acc THEN acc
            ELSE MapInsert(acc, ToLower(hs[i].name),
                           IF ToStrOk(hs[i].value) THEN hs[i].value ELSE <<>>))

RECURSIVE CollectHeaders(_, _, _)
\* parts.headers.iter().map(..).collect::<HashMap>(): entries inserted in
\* the order the HeaderMap yields them; HeaderName is held in lower case
CollectHeaders(hs, i, acc) ==
    IF i > Len(hs) THEN acc
    ELSE CollectHeaders(hs, i + 1,
            MapInsert(acc, ToLower(hs[i].name),
                      IF ToStrOk(hs[i].value) THEN hs[i].value ELSE <<>>))

InboundHeaders(hs) == CollectHeaders(hs, 1, EmptyMap)

\* StatusCode::from_u16 accepts 100..=999; Builder::status keeps the error
StatusOk(status) == 100 <= status /\ status < 1000

TokenChars == Range(UpperAlpha) \cup Range(LowerAlpha) \cup Digits \cup {"-", "_", "."}

\* HeaderName::from_bytes: a non-empty token
HeaderNameOk(name) == name # <<>> /\ \A i \in DOMAIN name : name[i] \in TokenChars

\* HeaderValue::from_bytes: no control characters (bytes >= 0x80 are accepted)
HeaderValueOk(value) == \A i \in DOMAIN value : value[i] \notin CtlChars

\* response_builder.body(body) is Ok iff every builder call before it was
BuilderOk(r) ==
    /\ StatusOk(r.status)
    /\ \A k \in DOMAIN r.headers : HeaderNameOk(k) /\ HeaderValueOk(r.headers[k])

\* the http::HeaderMap the fold fills: lower-case name -> multiset of values
OutHeaders(h) ==
    [n \in {ToLower(k) : k \in DOMAIN h} |->
        LET ks == {k \in DOMAIN h : ToLower(k) = n}
        IN  [v \in {h[k] : k \in ks} |-> Cardinality({k \in ks : h[k] = v})]]

UnwrapOrDefault(body) == IF body = None THEN <<>> ELSE body[1]

Outbound(r) ==
    [status |-> r.status, headers |-> OutHeaders(r.headers), body |-> UnwrapOrDefault(r.body)]

----------------------------------------------------------------------------
\* app.rs: handle_request, by its pieces

HyperRequest(verb, target, headers, body) ==
    [verb |-> verb, target |-> target, headers |-> headers, body |-> body]

HeaderLine(name, value) == [name |-> name, value |-> value]

\* lines 102-111
RequestParts(req) ==
    [method |-> convert_method(req.verb),
     path |-> UriPath(req.target),
     headers |-> InboundHeaders(req.headers)]

AppRequestAsGet(p, body) ==
    [method |-> "Get", headers |-> p.headers, path |-> p.path, body |-> body]

\* lines 115-120
AppRequest(p, body) ==
    [method |-> p.method, headers |-> p.headers, path |-> p.path, body |-> body]

NotFoundResponseBare == AppResponse_new(404, Str_NotFound)

\* line 128
NotFoundResponse ==
    with_header(AppResponse_new(404, Str_NotFound), Str_ContentType, Str_text_plain)

RECURSIVE InvocationsOfAllFrom(_, _, _, _)
InvocationsOfAllFrom(rs, i, p, req) ==
    IF i > Len(rs) THEN <<>>
    ELSE (IF RouteMatches(rs[i], p.method, p.path)
          THEN <<[handler |-> rs[i].handler, req |-> req]>> ELSE <<>>)
            \o InvocationsOfAllFrom(rs, i + 1, p, req)

InvocationsOfAll(rs, p, req) == InvocationsOfAllFrom(rs, 1, p, req)

\* lines 122-123: the handler calls of one dispatch, each with its argument
Invocations(rs, p, req) ==
    LET found == find_route(rs, p.method, p.path)
    IN  IF found # None THEN <<[handler |-> found[1], req |-> req]>> ELSE <<>>

\* lines 122-129
DispatchResponse(rs, p, req) ==
    LET found == find_route(rs, p.method, p.path)
    IN  IF found # None THEN handle(found[1], req) ELSE NotFoundResponse

----------------------------------------------------------------------------
\* Values of the per-connection variables while they hold nothing.

BlankWire == HyperRequest("", <<>>, <<>>, <<>>)

BlankParts == [method |-> "", path |-> <<>>, headers |-> EmptyMap]

BlankReq == AppRequest(BlankParts, <<>>)

BlankResponse == [status |-> 0, headers |-> EmptyMap, body |-> None]

BlankOut == [status |-> 0, headers |-> EmptyMap, body |-> <<>>]

NoProbe == [done |-> FALSE, method |-> "", path |-> <<>>, result |-> None]

NotBuilt == [resp |-> BlankResponse, calls |-> <<>>]

Init ==
    /\ phase = "Registering"
    /\ routes = <<>>
    /\ routes_at_listen = <<>>
    /\ probe = NoProbe
    /\ pc = [c \in Conns |-> "Idle"]
    /\ wire = [c \in Conns |-> BlankWire]
    /\ parts = [c \in Conns |-> BlankParts]
    /\ app_req = [c \in Conns |-> BlankReq]
    /\ response = [c \in Conns |-> BlankResponse]
    /\ out = [c \in Conns |-> BlankOut]
    /\ logged = [c \in Conns |-> FALSE]
    /\ seq = [c \in Conns |-> [read |-> 0, written |-> 0]]
    /\ built = NotBuilt
    /\ invoked = [c \in Conns |-> <<>>]

----------------------------------------------------------------------------
\* Registration phase (App::get .. App::delete, Router::add_route)

\* get/post/.. borrow the App mutably; listen(self) consumes it, after which
\* no registration call can be made
RegistrationOpenAlways == TRUE

RegistrationOpen == phase = "Registering"

Register(method, path, handler) ==
    /\ RegistrationOpen
    /\ Len(routes) < MaxRoutes
    /\ routes' = add_route(routes, method, path, handler)
    /\ UNCHANGED <<phase, routes_at_listen, probe, conn_vars>>

AppGet(path, handler) == Register("Get", path, handler)

AppPost(path, handler) == Register("Post", path, handler)

AppPut(path, handler) == Register("Put", path, handler)

AppPatch(path, handler) == Register("Patch", path, handler)

AppDelete(path, handler) == Register("Delete", path, handler)

\* Router used on its own: add_route, then find_route calls on the table
RouterAddRoute(method, path, handler) ==
    /\ Len(routes) < MaxRoutes
    /\ routes' = add_route(routes, method, path, handler)
    /\ probe' = NoProbe
    /\ UNCHANGED <<phase, routes_at_listen, conn_vars>>

RouterFindRoute(method, path) ==
    /\ probe' = [done |-> TRUE, method |-> method, path |-> path,
                 result |-> find_route(routes, method, path)]
    /\ UNCHANGED <<phase, routes, routes_at_listen, conn_vars>>

----------------------------------------------------------------------------
\* App::listen

\* lines 62-66, bind succeeds
ListenBind ==
    /\ phase = "Registering"
    /\ phase' = "Serving"
    /\ routes_at_listen' = routes
    /\ UNCHANGED <<routes, probe, conn_vars>>

\* lines 62-66, bind fails: unwrap panics before the loop
ListenBindFail ==
    /\ phase = "Registering"
    /\ phase' = "BindFailed"
    /\ routes_at_listen' = routes
    /\ UNCHANGED <<routes, probe, conn_vars>>

AcceptAnyPhase(c) ==
    /\ phase # "Registering"
    /\ pc[c] = "Idle"
    /\ \A d \in Conns : d < c => pc[d] # "Idle"
    /\ pc' = [pc EXCEPT ![c] = "Reading"]
    /\ UNCHANGED <<phase, routes, routes_at_listen, probe, wire, parts, app_req, response, out, logged>>

\* lines 69-72: accept one connection and spawn its task; connection slots
\* are taken in order
Accept(c) ==
    /\ phase = "Serving"
    /\ pc[c] = "Idle"
    /\ \A d \in Conns : d < c => pc[d] # "Idle"
    /\ pc' = [pc EXCEPT ![c] = "Reading"]
    /\ UNCHANGED <<phase, routes, routes_at_listen, probe, wire, parts, app_req, response, out, logged>>

\* line 69: accept returns Err and unwrap panics in the listener task
AcceptFail ==
    /\ phase = "Serving"
    /\ phase' = "AcceptFailed"
    /\ UNCHANGED <<routes, routes_at_listen, probe, conn_vars>>

----------------------------------------------------------------------------
\* One connection task: serve_connection driving handle_request

Clear(c, to) ==
    /\ pc' = [pc EXCEPT ![c] = to]
    /\ wire' = [wire EXCEPT ![c] = BlankWire]
    /\ parts' = [parts EXCEPT ![c] = BlankParts]
    /\ app_req' = [app_req EXCEPT ![c] = BlankReq]
    /\ response' = [response EXCEPT ![c] = BlankResponse]
    /\ out' = [out EXCEPT ![c] = BlankOut]

ReadHeadPipelined(c, req) ==
    /\ pc[c] \in {"Reading", "Writing"}
    /\ pc' = [pc EXCEPT ![c] = "Body"]
    /\ wire' = [wire EXCEPT ![c] = req]
    /\ parts' = [parts EXCEPT ![c] = RequestParts(req)]
    /\ UNCHANGED <<phase, routes, routes_at_listen, probe, app_req, response, out, logged>>

\* hyper parsed a request head and called the service: lines 102-111, up to the
\* await of line 113
ReadHead(c, req) ==
    /\ pc[c] = "Reading"
    /\ pc' = [pc EXCEPT ![c] = "Body"]
    /\ wire' = [wire EXCEPT ![c] = req]
    /\ parts' = [parts EXCEPT ![c] = RequestParts(req)]
    /\ UNCHANGED <<phase, routes, routes_at_listen, probe, app_req, response, out, logged>>

\* parse error or broken socket while reading: serve_connection returns Err,
\* lines 83-85 print it, and the task ends
ReadFail(c) ==
    /\ pc[c] = "Reading"
    /\ Clear(c, "Closed")
    /\ logged' = [logged EXCEPT ![c] = TRUE]
    /\ UNCHANGED <<phase, routes, routes_at_listen, probe>>

\* the peer closes an idle connection: serve_connection returns Ok, the task ends
PeerClose(c) ==
    /\ pc[c] = "Reading"
    /\ Clear(c, "Closed")
    /\ UNCHANGED <<phase, routes, routes_at_listen, probe, logged>>

\* line 113 yields the whole body; lines 115-120
ReadBodyOkShared(c) ==
    /\ pc[c] = "Body"
    /\ pc' = [pc EXCEPT ![c] = "Dispatching"]
    /\ app_req' = [d \in Conns |-> AppRequest(parts[c], wire[c].body)]
    /\ UNCHANGED <<phase, routes, routes_at_listen, probe, wire, parts, response, out, logged>>

ReadBodyOk(c) ==
    /\ pc[c] = "Body"
    /\ pc' = [pc EXCEPT ![c] = "Dispatching"]
    /\ app_req' = [app_req EXCEPT ![c] = AppRequest(parts[c], wire[c].body)]
    /\ UNCHANGED <<phase, routes, routes_at_listen, probe, wire, parts, response, out, logged>>

\* line 113 yields Err: `?` returns it, serve_connection fails, lines 83-85
ReadBodyFailFatal(c) ==
    /\ pc[c] = "Body"
    /\ Clear(c, "Closed")
    /\ logged' = [logged EXCEPT ![c] = TRUE]
    /\ phase' = "AcceptFailed"
    /\ UNCHANGED <<routes, routes_at_listen, probe>>

ReadBodyFailDispatch(c) ==
    /\ pc[c] = "Body"
    /\ pc' = [pc EXCEPT ![c] = "Dispatching"]
    /\ app_req' = [app_req EXCEPT ![c] = AppRequest(parts[c], <<>>)]
    /\ UNCHANGED <<phase, routes, routes_at_listen, probe, wire, parts, response, out, logged>>

ReadBodyFail(c) ==
    /\ pc[c] = "Body"
    /\ Clear(c, "Closed")
    /\ logged' = [logged EXCEPT ![c] = TRUE]
    /\ UNCHANGED <<phase, routes, routes_at_listen, probe>>

\* lines 122-138: lookup, handler call or fallback, response construction;
\* the unwrap of line 138 panics the task when the builder holds an error
Dispatch(c) ==
    /\ pc[c] = "Dispatching"
    /\ LET r == DispatchResponse(routes, parts[c], app_req[c])
       IN  /\ response' = [response EXCEPT ![c] = r]
           /\ IF BuilderOk(r)
              THEN /\ pc' = [pc EXCEPT ![c] = "Writing"]
                   /\ out' = [out EXCEPT ![c] = Outbound(r)]
              ELSE /\ pc' = [pc EXCEPT ![c] = "Panicked"]
                   /\ out' = out
    /\ UNCHANGED <<phase, routes, routes_at_listen, probe, wire, parts, app_req, logged>>

\* the response is written and the connection is kept for the next request
WriteKeepAlive(c) ==
    /\ pc[c] = "Writing"
    /\ Clear(c, "Reading")
    /\ UNCHANGED <<phase, routes, routes_at_listen, probe, logged>>

\* the response is written (or the write fails) and the connection ends
WriteClose(c) ==
    /\ pc[c] = "Writing"
    /\ Clear(c, "Closed")
    /\ UNCHANGED <<phase, routes, routes_at_listen, probe, logged>>

----------------------------------------------------------------------------
\* Inputs

P_a == <<"/", "a">>

P_A == <<"/", "A">>

P_a_slash == <<"/", "a", "/">>

P_a_query == <<"/", "a", "?", "x", "=", "1">>

P_b == <<"/", "b">>

H_xid == <<"X", "-", "I", "d">>

\* the verbs hyper can hand over: the five of Method and two others
Verbs == {"GET", "POST", "PUT", "DELETE", "PATCH", "OPTIONS", "HEAD"}

EchoHandlers == {EchoHandler("h1"), EchoHandler("h2")}

\* Router on its own
RouterPaths == {P_a, P_A, P_a_slash}

\* one connection, every verb, targets that differ in case, slash and query
DispatchPaths == {P_a, P_A}

DispatchRequests ==
    {HyperRequest(v, t, <<>>, <<>>) : v \in Verbs, t \in {P_a, P_A, P_a_slash, P_a_query}}

\* one connection, handlers that return unusual responses
StatusCodes == {0, 99, 100, 200, 404, 999, 1000, 65535}

ResponseHandlers ==
    {StatusHandler(s) : s \in StatusCodes}
        \cup {HeaderHandler(H_xid, <<"1">>),
              HeaderHandler(<<"X", " ", "I", "d">>, <<"1">>),
              HeaderHandler(H_xid, <<"1", "LF", "2">>),
              HeaderHandler(<<>>, <<"1">>),
              NoContentHandler,
              TwoHeaderHandler(Str_ContentType, Str_text_plain, Str_content_type, <<"1">>),
              TwoHeaderHandler(Str_ContentType, Str_text_plain, Str_content_type, Str_text_plain),
              TwoHeaderHandler(Str_ContentType, <<"1">>, Str_ContentType, Str_text_plain)}

ResponseRequests == {HyperRequest("GET", t, <<>>, <<>>) : t \in {P_a, P_b}}

\* several connections at once
ServeRequests ==
    {HyperRequest("GET", P_a, <<HeaderLine(H_xid, <<"1">>)>>, <<>>),
     HyperRequest("GET", P_a, <<HeaderLine(H_xid, <<"2">>)>>, <<"p">>),
     HyperRequest("POST", P_a, <<HeaderLine(H_xid, <<"1">>)>>, <<"q">>),
     HyperRequest("GET", P_b, <<>>, <<>>)}

----------------------------------------------------------------------------
\* Specifications

\* the Router alone
NextRouter ==
    \/ \E m \in Method, p \in RouterPaths, h \in EchoHandlers : RouterAddRoute(m, p, h) /\ UNCHANGED hist
    \/ \E m \in Method, p \in RouterPaths : RouterFindRoute(m, p) /\ UNCHANGED hist

SpecRouter == Init /\ [][NextRouter]_vars

\* registration through the five entries, then one connection
NextDispatch ==
    \/ \E p \in DispatchPaths, h \in EchoHandlers : AppGet(p, h) /\ UNCHANGED hist
    \/ \E p \in DispatchPaths, h \in EchoHandlers : AppPost(p, h) /\ UNCHANGED hist
    \/ \E p \in DispatchPaths, h \in EchoHandlers : AppPut(p, h) /\ UNCHANGED hist
    \/ \E p \in DispatchPaths, h \in EchoHandlers : AppPatch(p, h) /\ UNCHANGED hist
    \/ \E p \in DispatchPaths, h \in EchoHandlers : AppDelete(p, h) /\ UNCHANGED hist
    \/ ListenBind /\ UNCHANGED hist
    \/ Accept(1) /\ UNCHANGED hist
    \/ \E r \in DispatchRequests : ReadHead(1, r) /\ UNCHANGED hist
    \/ ReadBodyOk(1) /\ UNCHANGED hist
    \/ Dispatch(1) /\ UNCHANGED hist
    \/ WriteKeepAlive(1) /\ UNCHANGED hist

SpecDispatch == Init /\ [][NextDispatch]_vars

\* one connection, handlers returning any status and header
NextResponse ==
    \/ \E h \in ResponseHandlers : AppGet(P_a, h) /\ UNCHANGED hist
    \/ ListenBind /\ UNCHANGED hist
    \/ Accept(1) /\ UNCHANGED hist
    \/ \E r \in ResponseRequests : ReadHead(1, r) /\ UNCHANGED hist
    \/ ReadBodyOk(1) /\ UNCHANGED hist
    \/ Dispatch(1) /\ UNCHANGED hist
    \/ WriteKeepAlive(1) /\ UNCHANGED hist

SpecResponse == Init /\ [][NextResponse]_vars

\* the whole server: registration, listen, concurrent connection tasks
Next ==
    \/ \E h \in EchoHandlers : AppGet(P_a, h) /\ UNCHANGED hist
    \/ AppPost(P_a, EchoHandler("h2")) /\ UNCHANGED hist
    \/ ListenBind /\ UNCHANGED hist
    \/ ListenBindFail /\ UNCHANGED hist
    \/ \E c \in Conns : Accept(c) /\ UNCHANGED hist
    \/ AcceptFail /\ UNCHANGED hist
    \/ \E c \in Conns, r \in ServeRequests : ReadHead(c, r) /\ UNCHANGED hist
    \/ \E c \in Conns : ReadFail(c) /\ UNCHANGED hist
    \/ \E c \in Conns : PeerClose(c) /\ UNCHANGED hist
    \/ \E c \in Conns : ReadBodyOk(c) /\ UNCHANGED hist
    \/ \E c \in Conns : ReadBodyFail(c) /\ UNCHANGED hist
    \/ \E c \in Conns : Dispatch(c) /\ UNCHANGED hist
    \/ \E c \in Conns : WriteKeepAlive(c) /\ UNCHANGED hist
    \/ \E c \in Conns : WriteClose(c) /\ UNCHANGED hist

Spec == Init /\ [][Next]_vars

----------------------------------------------------------------------------
\* The tokio runtime under the tasks.  handle_request calls handler.handle
\* synchronously (line 123): from the moment line 113 yields the body until
\* the response is built, the task stays on its worker thread.  Any other
\* task, the accept loop included, needs a worker thread to make a step.

WorkerThreads == 1

InHandler == {c \in Conns : pc[c] = "Dispatching"}

WorkerFree == Cardinality(InHandler) < WorkerThreads

RtAccept(c) == WorkerFree /\ Accept(c)

RtAcceptFail == WorkerFree /\ AcceptFail

RtReadHead(c, req) == WorkerFree /\ ReadHead(c, req)

RtReadFail(c) == WorkerFree /\ ReadFail(c)

RtPeerClose(c) == WorkerFree /\ PeerClose(c)

RtReadBodyOk(c) == WorkerFree /\ ReadBodyOk(c)

RtReadBodyFail(c) == WorkerFree /\ ReadBodyFail(c)

RtWriteKeepAlive(c) == WorkerFree /\ WriteKeepAlive(c)

RtWriteClose(c) == WorkerFree /\ WriteClose(c)

\* the whole server on a runtime with WorkerThreads worker threads; a handler
\* that never returns is a Dispatch step that is never taken
NextRuntime ==
    \/ \E h \in EchoHandlers : AppGet(P_a, h) /\ UNCHANGED hist
    \/ AppPost(P_a, EchoHandler("h2")) /\ UNCHANGED hist
    \/ ListenBind /\ UNCHANGED hist
    \/ ListenBindFail /\ UNCHANGED hist
    \/ \E c \in Conns : RtAccept(c) /\ UNCHANGED hist
    \/ RtAcceptFail /\ UNCHANGED hist
    \/ \E c \in Conns, r \in ServeRequests : RtReadHead(c, r) /\ UNCHANGED hist
    \/ \E c \in Conns : RtReadFail(c) /\ UNCHANGED hist
    \/ \E c \in Conns : RtPeerClose(c) /\ UNCHANGED hist
    \/ \E c \in Conns : RtReadBodyOk(c) /\ UNCHANGED hist
    \/ \E c \in Conns : RtReadBodyFail(c) /\ UNCHANGED hist
    \/ \E c \in Conns : Dispatch(c) /\ UNCHANGED hist
    \/ \E c \in Conns : RtWriteKeepAlive(c) /\ UNCHANGED hist
    \/ \E c \in Conns : RtWriteClose(c) /\ UNCHANGED hist

SpecRuntime == Init /\ [][NextRuntime]_vars

----------------------------------------------------------------------------
\* Persistent connections, with the requests read and the responses written
\* on each connection counted.

MaxReqs == 2

KeepAliveRequests ==
    {HyperRequest("GET", P_a, <<HeaderLine(H_xid, <<"1">>)>>, <<>>),
     HyperRequest("GET", P_b, <<>>, <<>>)}

KaReadHead(c, req) ==
    /\ seq[c].read < MaxReqs
    /\ ReadHead(c, req)
    /\ seq' = [seq EXCEPT ![c].read = @ + 1]
    /\ UNCHANGED <<built, invoked>>

KaWriteKeepAlive(c) ==
    /\ WriteKeepAlive(c)
    /\ seq' = [seq EXCEPT ![c].written = @ + 1]
    /\ UNCHANGED <<built, invoked>>

KaWriteClose(c) ==
    /\ WriteClose(c)
    /\ seq' = [seq EXCEPT ![c].written = @ + 1]
    /\ UNCHANGED <<built, invoked>>

NextKeepAlive ==
    \/ AppGet(P_a, EchoHandler("h1")) /\ UNCHANGED hist
    \/ ListenBind /\ UNCHANGED hist
    \/ \E c \in Conns : Accept(c) /\ UNCHANGED hist
    \/ \E c \in Conns, r \in KeepAliveRequests : KaReadHead(c, r)
    \/ \E c \in Conns : PeerClose(c) /\ UNCHANGED hist
    \/ \E c \in Conns : ReadBodyOk(c) /\ UNCHANGED hist
    \/ \E c \in Conns : Dispatch(c) /\ UNCHANGED hist
    \/ \E c \in Conns : KaWriteKeepAlive(c)
    \/ \E c \in Conns : KaWriteClose(c)

SpecKeepAlive == Init /\ [][NextKeepAlive]_vars

----------------------------------------------------------------------------
\* A handler building its AppResponse: a constructor, then with_header calls

MaxCalls == 3

BuildKeys == {Str_ContentType, Str_content_type, H_xid}

BuildValues == {Str_text_plain, <<"1">>, <<"2">>}

\* AppResponse::new / with_bytes / status / no_content
BuildNew(r) ==
    /\ built' = [resp |-> r, calls |-> <<>>]
    /\ UNCHANGED <<serve_vars, seq, invoked>>

\* .with_header(key, value) on the value built so far
BuildWithHeader(key, value) ==
    /\ built # NotBuilt
    /\ Len(built.calls) < MaxCalls
    /\ built' = [resp |-> with_header(built.resp, key, value),
                 calls |-> Append(built.calls, <<key, value>>)]
    /\ UNCHANGED <<serve_vars, seq, invoked>>

NextBuild ==
    \/ \E b \in {<<>>, <<"o", "k">>} : BuildNew(AppResponse_new(200, b))
    \/ BuildNew(AppResponse_with_bytes(201, <<"0xFF">>))
    \/ \E code \in {200, 404} : BuildNew(AppResponse_status(code))
    \/ BuildNew(AppResponse_no_content)
    \/ \E k \in BuildKeys, v \in BuildValues : BuildWithHeader(k, v)

SpecBuild == Init /\ [][NextBuild]_vars

----------------------------------------------------------------------------
\* Inbound translation: one connection, requests with up to MaxHeaders header
\* lines, names in several letter cases, values that are and are not text

MaxHeaders == 2

H_x_id == <<"x", "-", "i", "d">>

H_xb == <<"X", "-", "B">>

InboundLines ==
    {HeaderLine(n, v) : n \in {H_xid, H_x_id, H_xb}, v \in {<<"1">>, <<"2">>, <<"0xFF">>}}

RECURSIVE SeqsUpTo(_, _)
SeqsUpTo(S, n) ==
    IF n = 0 THEN {<<>>}
    ELSE LET T == SeqsUpTo(S, n - 1)
         IN  T \cup {Append(t, x) : t \in T, x \in S}

InboundRequests ==
    {HyperRequest("GET", P_a, hs, <<>>) : hs \in SeqsUpTo(InboundLines, MaxHeaders)}

NextInbound ==
    \/ AppGet(P_a, EchoHandler("h1")) /\ UNCHANGED hist
    \/ ListenBind /\ UNCHANGED hist
    \/ Accept(1) /\ UNCHANGED hist
    \/ \E r \in InboundRequests : ReadHead(1, r) /\ UNCHANGED hist
    \/ ReadBodyOk(1) /\ UNCHANGED hist
    \/ Dispatch(1) /\ UNCHANGED hist
    \/ WriteKeepAlive(1) /\ UNCHANGED hist

SpecInbound == Init /\ [][NextInbound]_vars

----------------------------------------------------------------------------
\* Router::add_route alone, with paths of every shape: empty, without a
\* leading slash, with a trailing slash

P_empty == <<>>

P_noslash == <<"a">>

AddPaths == {P_empty, P_noslash, P_a, P_a_slash}

NextAddRoute ==
    \E m \in Method, p \in AddPaths, h \in EchoHandlers :
        RouterAddRoute(m, p, h) /\ UNCHANGED hist

SpecAddRoute == Init /\ [][NextAddRoute]_vars

----------------------------------------------------------------------------
\* Dispatch with the handler calls of each request recorded

InvokeRequests ==
    {HyperRequest(v, t, <<>>, b) : v \in {"GET", "POST"}, t \in {P_a, P_b}, b \in {<<>>, <<"p">>}}

\* a new request starts with no handler called for it
InvReadHead(c, req) ==
    /\ ReadHead(c, req)
    /\ invoked' = [invoked EXCEPT ![c] = <<>>]
    /\ UNCHANGED <<seq, built>>

InvDispatch(c) ==
    /\ Dispatch(c)
    /\ invoked' = [invoked EXCEPT ![c] = Invocations(routes, parts[c], app_req[c])]
    /\ UNCHANGED <<seq, built>>

NextInvoke ==
    \/ \E h \in EchoHandlers : AppGet(P_a, h) /\ UNCHANGED hist
    \/ \E h \in EchoHandlers : AppPost(P_a, h) /\ UNCHANGED hist
    \/ ListenBind /\ UNCHANGED hist
    \/ Accept(1) /\ UNCHANGED hist
    \/ \E r \in InvokeRequests : InvReadHead(1, r)
    \/ PeerClose(1) /\ UNCHANGED hist
    \/ ReadBodyOk(1) /\ UNCHANGED hist
    \/ ReadBodyFail(1) /\ UNCHANGED hist
    \/ InvDispatch(1)
    \/ WriteKeepAlive(1) /\ UNCHANGED hist
    \/ WriteClose(1) /\ UNCHANGED hist

SpecInvoke == Init /\ [][NextInvoke]_vars

----------------------------------------------------------------------------
\* Properties

\* positions of the routes registered under exactly (method, path)
Registered(method, path) ==
    {i \in DOMAIN routes : routes[i].method = method /\ routes[i].path = path}

Earliest(S) == CHOOSE i \in S : \A j \in S : i <= j

\* the Method a transport verb names, for the five verbs that name one
MethodOfVerb ==
    [v \in {"GET", "POST", "PUT", "DELETE", "PATCH"} |->
        CASE v = "GET" -> "Get" [] v = "POST" -> "Post" [] v = "PUT" -> "Put"
          [] v = "DELETE" -> "Delete" [] v = "PATCH" -> "Patch"]

Dispatched(c) == pc[c] \in {"Writing", "Panicked"}

\* C1: find_route(method, path) returns the handler of the earliest-registered
\* route whose method and path both equal the arguments (so of duplicates the
\* first-registered one), and none when no route has that pair.
C1_FirstRegisteredWins ==
    probe.done =>
        LET M == Registered(probe.method, probe.path)
        IN  IF M = {} THEN probe.result = None
            ELSE probe.result = Some(routes[Earliest(M)].handler)

\* two handlers under one (method, path), looked up: the first came back
C1_Witness ==
    /\ probe.done
    /\ Len(routes) = 2
    /\ routes[1].method = routes[2].method
    /\ routes[1].path = routes[2].path
    /\ routes[1].handler # routes[2].handler
    /\ probe.method = routes[1].method
    /\ probe.path = routes[1].path
    /\ probe.result = Some(routes[1].handler)

\* C2: for a (method, path) pair that was never registered find_route returns
\* none and dispatch produces exactly the fallback: status 404, the one header
\* Content-Type = text/plain, body "Not Found".
C2_UnregisteredIsNotFound ==
    \A c \in Conns :
        (Dispatched(c) /\ Registered(app_req[c].method, app_req[c].path) = {}) =>
            /\ pc[c] = "Writing"
            /\ find_route(routes, app_req[c].method, app_req[c].path) = None
            /\ response[c].status = 404
            /\ response[c].headers = (Str_ContentType :> Str_text_plain)
            /\ response[c].body = Some(Str_NotFound)
            /\ out[c].status = 404
            /\ out[c].headers = (ToLower(Str_ContentType) :> (Str_text_plain :> 1))
            /\ out[c].body = Str_NotFound

\* a request for an unregistered pair was answered while other routes exist
C2_Witness ==
    \E c \in Conns :
        /\ pc[c] = "Writing"
        /\ Len(routes) > 0
        /\ Registered(app_req[c].method, app_req[c].path) = {}
        /\ \E i \in DOMAIN routes : routes[i].path = app_req[c].path
        /\ out[c].status = 404

\* C3: routes are keyed by method as well as path: a request with method M is
\* dispatched to the earliest handler registered under (M, path) and to no
\* handler registered under another method, for each of the five methods.
C3_MethodKeyedDispatch ==
    \A c \in Conns :
        (Dispatched(c) /\ wire[c].verb \in DOMAIN MethodOfVerb) =>
            LET m == MethodOfVerb[wire[c].verb]
                M == Registered(m, app_req[c].path)
            IN  /\ app_req[c].method = m
                /\ IF M = {} THEN response[c].status = 404
                   ELSE response[c] = handle(routes[Earliest(M)].handler, app_req[c])

\* same path under two methods with different handlers; a request with the
\* second route's method got the second route's handler
C3_Witness ==
    \E c \in Conns :
        /\ pc[c] = "Writing"
        /\ Len(routes) = 2
        /\ routes[1].path = routes[2].path
        /\ routes[1].method # routes[2].method
        /\ routes[1].handler # routes[2].handler
        /\ wire[c].verb = "DELETE"
        /\ app_req[c].path = routes[2].path
        /\ routes[2].method = "Delete"
        /\ response[c].status = 200
        /\ response[c].body[1][1] = routes[2].handler.id

\* C4: a request whose verb is outside the five is not rejected; it is
\* dispatched as GET: to the earliest route registered under (Get, path) if
\* there is one, to the 404 fallback otherwise, and the handler sees method Get.
C4_UnknownVerbIsGet ==
    \A c \in Conns :
        (pc[c] \in {"Body", "Dispatching", "Writing", "Panicked"}
            /\ wire[c].verb \notin DOMAIN MethodOfVerb) =>
            /\ parts[c].method = "Get"
            /\ pc[c] # "Body" => app_req[c].method = "Get"
            /\ Dispatched(c) =>
                LET M == Registered("Get", app_req[c].path)
                IN  /\ pc[c] = "Writing"
                    /\ IF M = {} THEN response[c].status = 404
                       ELSE response[c] = handle(routes[Earliest(M)].handler, app_req[c])

\* an OPTIONS request reached the handler registered for GET
C4_Witness ==
    \E c \in Conns :
        /\ pc[c] = "Writing"
        /\ wire[c].verb = "OPTIONS"
        /\ Registered("Get", app_req[c].path) # {}
        /\ response[c].status = 200
        /\ response[c].body[1][2] = "Get"

\* C5 as stated: the lookup path and the Request's path are the exact request
\* target, query string included, so "/a?x=1" has path "/a?x=1" and does not
\* match a route registered as "/a".
C5_PathIsVerbatimTarget ==
    \A c \in Conns :
        pc[c] \in {"Dispatching", "Writing"} =>
            /\ parts[c].path = wire[c].target
            /\ app_req[c].path = wire[c].target

\* C5 amended: the lookup path and the Request's path are the request target
\* up to, not including, the first '?': letter case and a trailing slash are
\* kept and significant, the query string is dropped, so "/a?x=1" has path
\* "/a" and is dispatched to a route registered as "/a".
C5_PathIsTargetBeforeQuery ==
    \A c \in Conns :
        pc[c] \in {"Dispatching", "Writing"} =>
            LET t == wire[c].target
                p == app_req[c].path
            IN  /\ parts[c].path = p
                /\ Len(p) <= Len(t)
                /\ \A i \in 1..Len(p) : p[i] = t[i]
                /\ \A i \in 1..Len(p) : p[i] # "?"
                /\ Len(p) = Len(t) \/ t[Len(p) + 1] = "?"
                /\ pc[c] = "Writing" =>
                      (response[c].status = 200 <=> Registered(app_req[c].method, p) # {})

\* "/a?x=1" was answered by the handler registered under "/a"
C5_Witness ==
    \E c \in Conns :
        /\ pc[c] = "Writing"
        /\ wire[c].target = P_a_query
        /\ app_req[c].path = P_a
        /\ Registered(app_req[c].method, P_a) # {}
        /\ response[c].status = 200

\* C6: every status a handler puts in a Response, any 16-bit value, is passed
\* through: the transport-level response of that request carries that status.
C6_StatusPassedThrough ==
    \A c \in Conns :
        (Dispatched(c) /\ response[c].headers = EmptyMap) =>
            /\ pc[c] = "Writing"
            /\ out[c].status = response[c].status

\* C7: every request that reaches Dispatching reaches Writing, whatever
\* Response the handler returns: the task does not fail between lookup and
\* response construction.
C7_DispatchingReachesWriting ==
    [][\A c \in Conns :
          (pc[c] = "Dispatching" /\ pc'[c] # "Dispatching") => pc'[c] = "Writing"]_vars

\* C8: requests on different connections are answered independently: under
\* every interleaving the AppRequest of a connection is built from that
\* connection's request alone, and the response written to it is the one
\* computed from it.
C8_OwnRequestOnly ==
    \A c \in Conns :
        /\ pc[c] \in {"Dispatching", "Writing"} =>
              /\ app_req[c].method = MethodOfVerb[wire[c].verb]
              /\ app_req[c].path = wire[c].target
              /\ app_req[c].body = wire[c].body
              /\ app_req[c].headers =
                    [n \in {ToLower(wire[c].headers[i].name) : i \in DOMAIN wire[c].headers}
                        |-> wire[c].headers[
                                CHOOSE i \in DOMAIN wire[c].headers :
                                    /\ ToLower(wire[c].headers[i].name) = n
                                    /\ \A j \in DOMAIN wire[c].headers :
                                          ToLower(wire[c].headers[j].name) = n => j <= i
                            ].value]
        /\ pc[c] = "Writing" =>
              LET M == Registered(MethodOfVerb[wire[c].verb], wire[c].target)
                  own == [method |-> MethodOfVerb[wire[c].verb],
                          path |-> wire[c].target,
                          headers |-> app_req[c].headers,
                          body |-> wire[c].body]
              IN  /\ response[c] =
                        IF M = {} THEN NotFoundResponse
                        ELSE handle(routes[Earliest(M)].handler, own)
                  /\ out[c].status = response[c].status
                  /\ out[c].body = response[c].body[1]

\* two connections hold different requests for the same path at once, each
\* answered from its own
C8_Witness ==
    /\ pc[1] = "Writing"
    /\ pc[2] = "Writing"
    /\ wire[1].target = wire[2].target
    /\ wire[1].verb = wire[2].verb
    /\ wire[1] # wire[2]
    /\ response[1].status = 200
    /\ response[2].status = 200
    /\ out[1].body # out[2].body

\* C9: once listen has started, the route table is immutable: while
\* connection tasks look routes up and call handlers, the route sequence is
\* the one that existed when listen was called.
C9_RouteTableFrozen ==
    phase # "Registering" => routes = routes_at_listen

\* serving, with routes, two tasks past a lookup
C9_Witness ==
    /\ phase = "Serving"
    /\ Len(routes) = 2
    /\ pc[1] = "Writing"
    /\ pc[2] = "Writing"

\* C10: a connection that ends in Closed, by an I/O or parse failure or by the
\* peer going away, takes nothing else with it: the listener stays as it was
\* and every other connection keeps its state and its request.
C10_FailureIsolated ==
    [][\A c \in Conns :
          (pc[c] # "Closed" /\ pc'[c] = "Closed") =>
              /\ phase' = phase
              /\ routes' = routes
              /\ \A d \in Conns \ {c} :
                    /\ pc'[d] = pc[d]
                    /\ wire'[d] = wire[d]
                    /\ parts'[d] = parts[d]
                    /\ app_req'[d] = app_req[d]
                    /\ response'[d] = response[d]
                    /\ out'[d] = out[d]
                    /\ logged'[d] = logged[d]]_vars

\* one connection failed and was logged; the listener serves on and another
\* connection still holds its request
C10_Witness ==
    /\ phase = "Serving"
    /\ pc[1] = "Closed"
    /\ logged[1]
    /\ pc[2] = "Dispatching"
    /\ app_req[2].body = <<"q">>

\* C11: a handler that does not return delays only its own connection: while
\* one task is inside a handler, the listener can still accept and the other
\* connections can still have their requests read, dispatched and answered.
C11_BlockedHandlerDelaysOnlyOwn ==
    \A c \in Conns :
        pc[c] = "Dispatching" =>
            /\ (phase = "Serving" /\ \E d \in Conns : pc[d] = "Idle") =>
                  ENABLED (\E d \in Conns : RtAccept(d))
            /\ \A d \in Conns \ {c} :
                  /\ pc[d] = "Reading" => ENABLED (\E r \in ServeRequests : RtReadHead(d, r))
                  /\ pc[d] = "Body" => ENABLED RtReadBodyOk(d)
                  /\ pc[d] = "Writing" => ENABLED RtWriteKeepAlive(d)

InFlight(c) == pc[c] \in {"Body", "Dispatching", "Writing", "Panicked"}

\* C12: on one persistent connection requests are processed strictly in
\* sequence: request N+1 is read only after the response to request N is
\* written, so a connection holds at most one request between read and
\* written; across connections no order is imposed.
C12_SequentialPerConnection ==
    \A c \in Conns :
        /\ seq[c].written <= seq[c].read
        /\ seq[c].read <= seq[c].written + 1
        /\ (seq[c].read = seq[c].written + 1) <=> InFlight(c)

\* connection 1 is on its second request, its first response written, while
\* connection 2, accepted later, has its first response ready
C12_Witness ==
    /\ seq[1] = [read |-> 2, written |-> 1]
    /\ pc[1] = "Dispatching"
    /\ seq[2] = [read |-> 1, written |-> 0]
    /\ pc[2] = "Writing"

\* C13: after a successful bind the accept loop runs for ever: no failure
\* during serving, a failure of accept included, stops the listener.
C13_ListenerNeverStops == [][phase = "Serving" => phase' = "Serving"]_vars

\* C14: when the bind fails nothing is served: no connection is accepted, no
\* connection task exists and no handler was invoked.
C14_BindFailureServesNothing ==
    phase = "BindFailed" =>
        /\ \A c \in Conns :
              /\ pc[c] = "Idle"
              /\ wire[c] = BlankWire
              /\ app_req[c] = BlankReq
              /\ response[c] = BlankResponse
              /\ out[c] = BlankOut
        /\ ~ ENABLED (\E c \in Conns : Accept(c))

\* the bind failed on an application that had routes registered
C14_Witness == phase = "BindFailed" /\ Len(routes) > 0

CalledKeys == {built.calls[i][1] : i \in DOMAIN built.calls}

LastCallFor(k) ==
    CHOOSE i \in DOMAIN built.calls :
        /\ built.calls[i][1] = k
        /\ \A j \in DOMAIN built.calls : built.calls[j][1] = k => j <= i

\* C15: with_header is last-write-wins per key: after any sequence of calls
\* the header mapping holds one entry for each key that was given, its value
\* the one of the last call for that key, and a call leaves the entries of
\* the other keys as they were.
C15_WithHeaderLastWriteWins ==
    /\ DOMAIN built.resp.headers = CalledKeys
    /\ \A k \in CalledKeys : built.resp.headers[k] = built.calls[LastCallFor(k)][2]

\* a key set, another key set, then the first key set again to another value
C15_Witness ==
    /\ Len(built.calls) = 3
    /\ built.calls[1][1] = built.calls[3][1]
    /\ built.calls[1][2] # built.calls[3][2]
    /\ built.calls[2][1] # built.calls[1][1]

\* C16: outbound translation writes every entry of the header mapping of
\* the Response a handler returned: each (name, value) entry is in the
\* transport-level response with that value, and the body bytes are written
\* unchanged.
C16_EveryHeaderEntryWritten ==
    \A c \in Conns :
        Dispatched(c) =>
            /\ \A k \in DOMAIN response[c].headers :
                  /\ ToLower(k) \in DOMAIN out[c].headers
                  /\ response[c].headers[k] \in DOMAIN out[c].headers[ToLower(k)]
            /\ out[c].body = UnwrapOrDefault(response[c].body)

\* C17: a Response without a body, from AppResponse::status or
\* AppResponse::no_content, is serialized with the handler's status and
\* headers and a zero-length body.
C17_NoBodyIsZeroLength ==
    \A c \in Conns :
        (Dispatched(c) /\ response[c].body = None) =>
            /\ pc[c] = "Writing"
            /\ out[c].status = response[c].status
            /\ out[c].headers = OutHeaders(response[c].headers)
            /\ out[c].body = <<>>

\* the header lines of the request on connection c, as hyper parsed them
Lines(c) == wire[c].headers

\* a header value that is not text: it holds a byte that is not ASCII
NotText(v) == \E i \in DOMAIN v : v[i] = "0xFF"

LowerName(n) ==
    [i \in DOMAIN n |->
        IF \E j \in DOMAIN UpperAlpha : UpperAlpha[j] = n[i]
        THEN LowerAlpha[CHOOSE j \in DOMAIN UpperAlpha : UpperAlpha[j] = n[i]]
        ELSE n[i]]

\* the positions of the lines whose name is n in some letter case
LinesNamed(c, n) == {i \in DOMAIN Lines(c) : LowerName(Lines(c)[i].name) = n}

Latest(S) == CHOOSE i \in S : \A j \in S : j <= i

HasRequest(c) == pc[c] \in {"Dispatching", "Writing", "Panicked"}

\* C18: an inbound header whose value is not decodable as text causes no
\* error and no dropped request: its name is in the Request's header mapping,
\* with the empty string as the value unless a later line of that name
\* replaced it, and dispatch goes on to the handler and the response.
C18_UndecodableValueIsEmpty ==
    \A c \in Conns :
        HasRequest(c) =>
            \A i \in DOMAIN Lines(c) :
                NotText(Lines(c)[i].value) =>
                    LET n == LowerName(Lines(c)[i].name)
                    IN  /\ n \in DOMAIN app_req[c].headers
                        /\ i = Latest(LinesNamed(c, n)) => app_req[c].headers[n] = <<>>
                        /\ pc[c] # "Panicked"
                        /\ ~ logged[c]
                        /\ pc[c] = "Dispatching" => ENABLED Dispatch(c)

\* a request whose only header has a value that is not text was answered by
\* the handler; the handler found the empty string under the name
C18_Witness ==
    /\ pc[1] = "Writing"
    /\ Lines(1) = <<HeaderLine(H_xid, <<"0xFF">>)>>
    /\ app_req[1].headers = (H_x_id :> <<>>)
    /\ response[1].status = 200

\* the text a header value becomes in the Request
TextOf(v) == IF NotText(v) THEN <<>> ELSE v

NamesSent(c) == {LowerName(Lines(c)[i].name) : i \in DOMAIN Lines(c)}

\* C19: when a request carries a header name more than once, the Request's
\* header mapping holds one entry for that name, and its value is that of the
\* last occurrence in the order the transport presents them.
C19_DuplicateLastSeenWins ==
    \A c \in Conns :
        HasRequest(c) =>
            /\ DOMAIN app_req[c].headers = NamesSent(c)
            /\ \A n \in NamesSent(c) :
                  app_req[c].headers[n] = TextOf(Lines(c)[Latest(LinesNamed(c, n))].value)

\* the same name twice with two values: the mapping has the second
C19_Witness ==
    /\ pc[1] = "Writing"
    /\ Lines(1) = <<HeaderLine(H_xid, <<"1">>), HeaderLine(H_xid, <<"2">>)>>
    /\ app_req[1].headers = (H_x_id :> <<"2">>)

IsLowerCase(n) == \A i \in DOMAIN n : \A j \in DOMAIN UpperAlpha : n[i] # UpperAlpha[j]

\* C20: inbound header names are stored in lower case whatever letter case
\* the client sent, so a handler that looks a header up by its lower-case name
\* finds the value sent under a mixed-case name.
C20_InboundNamesLowercase ==
    \A c \in Conns :
        HasRequest(c) =>
            /\ \A n \in DOMAIN app_req[c].headers : IsLowerCase(n)
            /\ \A i \in DOMAIN Lines(c) :
                  Lines(c)[i].name = H_xid =>
                      /\ H_x_id \in DOMAIN app_req[c].headers
                      /\ (pc[c] = "Writing" /\ response[c].status = 200) =>
                            response[c].body =
                                Some(<<"h1", "Get">> \o P_a \o <<"|", "|">>
                                        \o app_req[c].headers[H_x_id])
            /\ \A i \in DOMAIN Lines(c) :
                  (Lines(c)[i].name = H_xid /\ LinesNamed(c, H_x_id) = {i}) =>
                      app_req[c].headers[H_x_id] = TextOf(Lines(c)[i].value)

\* the client sent X-Id: 1 and X-B: 2; the handler, asking for x-id, echoed 1
C20_Witness ==
    /\ pc[1] = "Writing"
    /\ Lines(1) = <<HeaderLine(H_xid, <<"1">>), HeaderLine(H_xb, <<"2">>)>>
    /\ response[1].body = Some(<<"h1", "Get">> \o P_a \o <<"|", "|", "1">>)

\* C21: add_route always succeeds and only appends: for every method, path
\* (the empty one, one without a leading slash, one already registered) and
\* handler, the sequence after the call is the sequence before it followed by
\* one route holding that method, path and handler; no existing route is
\* changed, removed or reordered.
C21_AddRouteOnlyAppends ==
    /\ [](Len(routes) < MaxRoutes =>
            \A m \in Method, p \in AddPaths, h \in EchoHandlers :
                ENABLED RouterAddRoute(m, p, h))
    /\ [][\A m \in Method, p \in AddPaths, h \in EchoHandlers :
            RouterAddRoute(m, p, h) =>
                /\ Len(routes') = Len(routes) + 1
                /\ \A i \in DOMAIN routes : routes'[i] = routes[i]
                /\ routes'[Len(routes')] = [method |-> m, path |-> p, handler |-> h]]_vars

\* a path without a leading slash registered twice under one method, with
\* two handlers: both routes are in the sequence, in call order
C21_Witness ==
    /\ Len(routes) = 2
    /\ routes[1] = [method |-> "Get", path |-> P_noslash, handler |-> EchoHandler("h1")]
    /\ routes[2] = [method |-> "Get", path |-> P_noslash, handler |-> EchoHandler("h2")]

SameText(p, q) == Len(p) = Len(q) /\ \A i \in 1..Len(p) : p[i] = q[i]

\* C22: find_route matches by exact, case-sensitive equality, nothing trimmed
\* or decoded: what it returns is the handler of a route whose path is the
\* query path character for character and whose method is the query method,
\* so paths that differ in letter case or in a trailing slash, and routes of
\* another method, are never returned.
C22_ExactMatchOnly ==
    probe.done =>
        /\ probe.result # None =>
              \E i \in DOMAIN routes :
                  /\ routes[i].handler = probe.result[1]
                  /\ routes[i].method = probe.method
                  /\ SameText(routes[i].path, probe.path)
        /\ (\A i \in DOMAIN routes :
                \/ routes[i].method # probe.method
                \/ ~ SameText(routes[i].path, probe.path)) => probe.result = None

\* "/A" and "/a/" are registered under Get; find_route(Get, "/a") found nothing
C22_Witness ==
    /\ probe.done
    /\ Len(routes) = 2
    /\ routes[1].method = "Get" /\ routes[1].path = P_A
    /\ routes[2].method = "Get" /\ routes[2].path = P_a_slash
    /\ probe.method = "Get" /\ probe.path = P_a
    /\ probe.result = None

\* C23: dispatch invokes exactly one handler exactly once for a request that
\* matches a route, the handler of the earliest such route, and no handler
\* for a request that matches none: the Not-Found fallback is made without a
\* handler call, and the handlers of shadowed routes are never invoked.
C23_OneHandlerOncePerMatch ==
    \A c \in Conns :
        /\ pc[c] \in {"Body", "Dispatching"} => invoked[c] = <<>>
        /\ Dispatched(c) =>
              LET M == Registered(app_req[c].method, app_req[c].path)
              IN  IF M = {}
                  THEN invoked[c] = <<>> /\ response[c] = NotFoundResponse
                  ELSE /\ Len(invoked[c]) = 1
                       /\ invoked[c][1].handler = routes[Earliest(M)].handler
                       /\ response[c] = handle(invoked[c][1].handler, invoked[c][1].req)

\* two handlers registered under (Get, "/a"); a GET /a was answered with one
\* call, to the first
C23_Witness ==
    /\ Len(routes) = 2
    /\ routes[1] = Route("Get", P_a, EchoHandler("h1"))
    /\ routes[2] = Route("Get", P_a, EchoHandler("h2"))
    /\ pc[1] = "Writing"
    /\ Len(invoked[1]) = 1
    /\ invoked[1][1].handler = EchoHandler("h1")

\* C24: a handler registered under (method, path) is only ever invoked with
\* a Request whose method and path are that method and that path: the key of
\* the route lookup and the method and path of the Request handed to the
\* selected handler are the same values.
C24_HandlerSeesItsOwnKey ==
    \A c \in Conns :
        Dispatched(c) =>
            \A k \in DOMAIN invoked[c] :
                LET call == invoked[c][k]
                    M == Registered(parts[c].method, parts[c].path)
                IN  /\ call.req = app_req[c]
                    /\ call.req.method = parts[c].method
                    /\ call.req.path = parts[c].path
                    /\ M # {}
                    /\ call.handler = routes[Earliest(M)].handler
                    /\ routes[Earliest(M)].method = call.req.method
                    /\ routes[Earliest(M)].path = call.req.path

\* "/a" under Get and under Post with two handlers; a POST /a reached the
\* Post handler with a Request saying Post and "/a"
C24_Witness ==
    /\ routes = <<Route("Get", P_a, EchoHandler("h1")), Route("Post", P_a, EchoHandler("h2"))>>
    /\ pc[1] = "Writing"
    /\ wire[1].verb = "POST"
    /\ Len(invoked[1]) = 1
    /\ invoked[1][1].handler = EchoHandler("h2")
    /\ invoked[1][1].req.method = "Post"
    /\ invoked[1][1].req.path = P_a

\* C25: a handler is invoked only after the request body has been read
\* completely: a request leaves the body read either whole, for dispatch, or
\* by a failure (read error, peer gone mid-body), and then no lookup result
\* is acted on, no handler is invoked, no response is produced and the
\* connection is Closed.
C25_HandlerOnlyAfterWholeBody ==
    [][\A c \in Conns :
          /\ (pc[c] = "Body" /\ pc'[c] # "Body") =>
                \/ /\ pc'[c] = "Dispatching"
                   /\ app_req'[c].body = wire[c].body
                   /\ invoked'[c] = <<>>
                \/ /\ pc'[c] = "Closed"
                   /\ invoked'[c] = <<>>
                   /\ app_req'[c] = BlankReq
                   /\ response'[c] = BlankResponse
                   /\ out'[c] = BlankOut
          /\ (invoked'[c] # invoked[c] /\ invoked'[c] # <<>>) =>
                /\ pc[c] = "Dispatching"
                /\ app_req[c].body = wire[c].body]_vars

\* with a route registered, reading a request's body failed: the failure was
\* printed, the connection is closed, no handler was called
C25_Witness ==
    /\ phase = "Serving"
    /\ Len(routes) > 0
    /\ pc[1] = "Closed"
    /\ logged[1]
    /\ invoked[1] = <<>>
    /\ response[1] = BlankResponse

\* the handler dispatch selects for the request of connection c, if any
Selected(c) ==
    LET M == Registered(app_req[c].method, app_req[c].path)
    IN  IF M = {} THEN None ELSE Some(routes[Earliest(M)].handler)

\* a multiset of header values: value -> number of lines
BagOf(v1, v2) == IF v1 = v2 THEN (v1 :> 2) ELSE (v1 :> 1) @@ (v2 :> 1)

\* C26: with_header compares keys case-sensitively: two calls whose keys
\* differ only in letter case ("Content-Type", then "content-type") do not
\* replace one another, the mapping holds both entries, and outbound
\* translation writes both to the transport-level response.
C26_KeysCaseSensitive ==
    \A c \in Conns :
        (Dispatched(c) /\ Selected(c) # None /\ Selected(c)[1].kind = "header2") =>
            LET h == Selected(c)[1]
                k1 == h.key[1]
                k2 == h.key[2]
            IN  (k1 # k2 /\ LowerName(k1) = LowerName(k2)) =>
                    /\ DOMAIN response[c].headers = {k1, k2}
                    /\ response[c].headers[k1] = h.val[1]
                    /\ response[c].headers[k2] = h.val[2]
                    /\ pc[c] = "Writing"
                    /\ DOMAIN out[c].headers = {LowerName(k1)}
                    /\ out[c].headers[LowerName(k1)] = BagOf(h.val[1], h.val[2])

\* Content-Type: text/plain then content-type: 1 were set; the mapping has
\* both and the transport response has two content-type lines
C26_Witness ==
    /\ pc[1] = "Writing"
    /\ response[1].headers =
          (Str_ContentType :> Str_text_plain) @@ (LowerName(Str_ContentType) :> <<"1">>)
    /\ out[1].headers =
          (LowerName(Str_ContentType) :> ((Str_text_plain :> 1) @@ (<<"1">> :> 1)))

====
